---- MODULE Spec2Model ----
(***************************************************************************)
(* Model of the in-memory patient register of main.go: the shared map      *)
(* `patients`, the id `counter` and the mutex `mu`, and the request        *)
(* handlers that work on them.  One worker (goroutine) serves one request  *)
(* at a time; every statement of a handler that touches shared state is a  *)
(* step of its own, so that the interleavings of the handlers are those    *)
(* of the program.                                                         *)
(*                                                                         *)
(* Only createPatient and deletePatient take `mu`, and only around their   *)
(* map write.  Every other access to the map or to a record is             *)
(* unsynchronised.  A map write takes two steps (MapWriteBegin raises the  *)
(* runtime's "writing" flag, the second step lands the write); a map read  *)
(* or a range step made in between is a data race, whose outcomes are:     *)
(* the runtime aborts the process ("fatal error: concurrent map read and   *)
(* map write"), the read sees the map as before the write, or as after.    *)
(*                                                                         *)
(* A record is a struct on the heap that the map and the handlers point    *)
(* to; it is named by the id it was given.  updatePatient writes its       *)
(* fields one statement at a time; a json.Marshal or a struct copy reads   *)
(* the record in one step.  A struct that nothing points to any more is    *)
(* dropped from `heap`.                                                    *)
(*                                                                         *)
(* The last five variables are history: they record what was received,     *)
(* assigned, answered and deleted (and the errors the handlers discard),   *)
(* and no handler reads them.                                              *)
(***************************************************************************)
EXTENDS Integers, Sequences, FiniteSets, TLC

\* ------------------------------------------------------------------ bounds

\* The workers (goroutines) serving requests concurrently.
Procs == {1, 2}

\* The counter never exceeds MaxCounter: at most MaxCounter - 1 records are created.
MaxCounter == 3

\* The number of requests the server receives in a run.
MaxRequests == 4

\* The number of requests of a run in which requests do not overlap.
MaxSeqRequests == 5

\* ------------------------------------------------------------- the record

\* The zero value of the Patient struct.
ZeroPatient == [ID |-> 0, Name |-> <<>>, Age |-> 0, Password |-> ""]

\* hex.EncodeToString(md5.Sum(s)) on the passwords the requests carry.
md5hex(s) ==
    CASE s = ""   -> "d41d8cd98f00b204e9800998ecf8427e"
      [] s = "pw" -> "8fe4c11451281c094a6578e6ddbf5eed"
      [] OTHER    -> "md5(" \o s \o ")"

\* ------------------------------------------------------- request payloads

\* A request body: well-formed JSON with the fields it carries (a missing
\* field is its zero value), or text that is not JSON at all.
Bodies ==
    { [ok |-> FALSE, id |-> 0, name |-> <<>>, age |-> 0, password |-> ""],
      [ok |-> TRUE,  id |-> 0, name |-> <<"A", "l">>, age |-> 30, password |-> ""],
      [ok |-> TRUE,  id |-> 7, name |-> <<"B", "o">>, age |-> 41, password |-> "pw"] }

\* json.Unmarshal into a zero Patient, error ignored: a syntax error leaves
\* the struct untouched.
Unmarshal(body) ==
    IF body.ok
    THEN [ID |-> body.id, Name |-> body.name, Age |-> body.age, Password |-> body.password]
    ELSE ZeroPatient

\* ------------------------------------------------------ name-format check

IsUpper(c) == c \in {"A","B","C","D","E","F","G","H","I","J","K","L","M",
                     "N","O","P","Q","R","S","T","U","V","W","X","Y","Z"}
IsLower(c) == c \in {"a","b","c","d","e","f","g","h","i","j","k","l","m",
                     "n","o","p","q","r","s","t","u","v","w","x","y","z"}
IsSpace(c) == c \in {" ", "\t", "\n", "\f", "\r"}

\* The first position at or after i that holds no lower-case letter.
RECURSIVE LowerEnd(_, _)
LowerEnd(s, i) ==
    IF i <= Len(s) /\ IsLower(s[i]) THEN LowerEnd(s, i + 1) ELSE i

\* [A-Z][a-z]+(?:\s[A-Z][a-z]+)*$ matched from position i.
RECURSIVE MatchWords(_, _)
MatchWords(s, i) ==
    /\ i + 1 <= Len(s)
    /\ IsUpper(s[i])
    /\ IsLower(s[i + 1])
    /\ LET j == LowerEnd(s, i + 1)
       IN  IF j > Len(s) THEN TRUE
           ELSE IsSpace(s[j]) /\ MatchWords(s, j + 1)

validatePatientName(name) == MatchWords(name, 1)

\* ------------------------------------------------------- path identities

DigitChars == <<"0", "1", "2", "3", "4", "5", "6", "7", "8", "9">>

DigitVal(c) == CHOOSE d \in 0..9 : DigitChars[d + 1] = c

IsDigit(c) == \E d \in 0..9 : DigitChars[d + 1] = c

\* The value of a run of decimal digits.
RECURSIVE DigitsVal(_)
DigitsVal(s) ==
    IF s = <<>> THEN 0
    ELSE 10 * DigitsVal(SubSeq(s, 1, Len(s) - 1)) + DigitVal(s[Len(s)])

AllDigits(s) == s # <<>> /\ \A i \in 1..Len(s) : IsDigit(s[i])

\* id, _ := strconv.Atoi(idStr): an optional sign and digits; 0 on any error.
Atoi(s) ==
    IF AllDigits(s) THEN DigitsVal(s)
    ELSE IF s # <<>> /\ s[1] \in {"-", "+"} /\ AllDigits(Tail(s))
         THEN (IF s[1] = "-" THEN 0 - DigitsVal(Tail(s)) ELSE DigitsVal(Tail(s)))
         ELSE 0

\* The path segments the item requests carry: every id the counter can
\* issue, one beyond, zero, a negative number, text and the empty segment.
IdStrs ==
    { <<DigitChars[i + 1]>> : i \in 0..MaxCounter }
      \cup { <<"-", "1">>, <<"x">>, <<>> }

\* strconv.Atoi returns an error: the segment is no decimal number.
AtoiErr(s) ==
    ~(\/ AllDigits(s)
      \/ (s # <<>> /\ s[1] \in {"-", "+"} /\ AllDigits(Tail(s))))

Routes == {"/patients", "/patients-dup"}

Methods == {"GET", "POST", "PUT", "DELETE", "PATCH"}

\* -------------------------------------------------------------- the state

VARIABLES
    patients,   \* the keys of the map `patients`; key k maps to the record heap[k]
    heap,       \* the Patient structs that can still be reached, by id
    counter,    \* the next id
    mu,         \* the worker holding the mutex, 0 when free
    mapw,       \* the map write in flight
    fatal,      \* the runtime has aborted the process
    pc,         \* each worker's position
    route,      \* the route set of the request, while the handlers' texts differ
    id,         \* the id parsed from the path
    p,          \* createPatient's local struct, until the map points to it
    ptr,        \* the record a handler holds a pointer to (0: none)
    update,     \* updatePatient's decoded patch
    list,       \* getPatients' slice
    seen,       \* keys getPatients' range has produced
    snap,       \* keys in the map when getPatients' range began
    resp,       \* the response written
    nreq,       \* requests received so far
    created,    \* history: ids in createPatient responses, in response order
    issued,     \* history: ids in the order createPatient assigned them
    deleted,    \* history: ids removed from the map
    fresh,      \* history: each record as created, until an update or delete finds it
    req         \* history: the worker's request, the errors its handler discarded,
                \* and the record its create inserted

vars == <<patients, heap, counter, mu, mapw, fatal, pc, route, id, p, ptr,
          update, list, seen, snap, resp, nreq, created, issued, deleted, fresh, req>>

history == <<created, issued, deleted, fresh, req>>

past == <<created, issued, deleted, fresh>>

NoWrite == [op |-> "none", key |-> 0]

NoResp == [op |-> "", status |-> 0, msg |-> "", rec |-> ZeroPatient, list |-> <<>>]

NoReq == [method |-> "", item |-> FALSE, atoiErr |-> FALSE, jsonErr |-> FALSE,
          draft |-> ZeroPatient]

\* Variant: the counter starts at Go's zero value.
CounterSeedZero == counter = 0

\* counter = 1
CounterSeed == counter = 1

Init ==
    /\ patients = {}
    /\ heap = <<>>
    /\ CounterSeed
    /\ mu = 0
    /\ mapw = NoWrite
    /\ fatal = FALSE
    /\ pc = [w \in Procs |-> "idle"]
    /\ route = [w \in Procs |-> "/patients"]
    /\ id = [w \in Procs |-> 0]
    /\ p = [w \in Procs |-> ZeroPatient]
    /\ ptr = [w \in Procs |-> 0]
    /\ update = [w \in Procs |-> ZeroPatient]
    /\ list = [w \in Procs |-> <<>>]
    /\ seen = [w \in Procs |-> {}]
    /\ snap = [w \in Procs |-> {}]
    /\ resp = [w \in Procs |-> NoResp]
    /\ nreq = 0
    /\ created = <<>>
    /\ issued = <<>>
    /\ deleted = {}
    /\ fresh = <<>>
    /\ req = [w \in Procs |-> NoReq]

\* ---------------------------------------------------------------- records

\* The ids of the structs that can be reached: through the map, through the
\* map write in flight, or through a pointer a handler holds.
Reach(pats, mw, ptrs) ==
    pats \cup (IF mw.op = "insert" THEN {mw.key} ELSE {})
         \cup {ptrs[w] : w \in Procs}

\* The structs that remain once the unreachable ones are collected.
Collect(h, keep) == [k \in (DOMAIN h) \cap keep |-> h[k]]

\* ------------------------------------------------------------ responses

Error(op, status, msg) == [NoResp EXCEPT !.op = op, !.status = status, !.msg = msg]

\* json.Marshal(p) written with the default status.
Body(op, rec) == [NoResp EXCEPT !.op = op, !.status = 200, !.rec = rec]

Goto(w, label) == pc' = [pc EXCEPT ![w] = label]

\* The handler writes its response and returns: its locals are gone.
WriteHeader(w, r) ==
    /\ resp' = [resp EXCEPT ![w] = r]
    /\ Goto(w, "done")
    /\ route' = [route EXCEPT ![w] = "/patients"]
    /\ p' = [p EXCEPT ![w] = ZeroPatient]
    /\ ptr' = [ptr EXCEPT ![w] = 0]
    /\ list' = [list EXCEPT ![w] = <<>>]
    /\ seen' = [seen EXCEPT ![w] = {}]
    /\ snap' = [snap EXCEPT ![w] = {}]
    /\ heap' = Collect(heap, Reach(patients, mapw, ptr'))
    /\ UNCHANGED <<patients, counter, mu, mapw, fatal, id, update>>

\* The same by a handler, which is past the count of the requests received.
Write(w, r) == WriteHeader(w, r) /\ UNCHANGED nreq

\* The message of the 404 answer of the worker's route set.
NotFoundMsg(w) ==
    IF route[w] = "/patients" THEN "Patient not found" ELSE "Patient not found (dup)"

\* ------------------------------------------------------------ map accesses

\* Variant: delete(patients, id) removes nothing.
AfterKeeps ==
    IF mapw.op = "insert" THEN patients \cup {mapw.key} ELSE patients

\* The map once the write in flight has landed.
After ==
    IF mapw.op = "insert" THEN patients \cup {mapw.key}
    ELSE IF mapw.op = "delete" THEN patients \ {mapw.key}
    ELSE patients

\* The key sets an unsynchronised reader may see.
MapViews == IF mapw.op = "none" THEN {patients} ELSE {patients, After}

\* The outcomes of the unsynchronised lookup patients[k].
MapRead(k) ==
    { IF k \in v THEN "hit" ELSE "miss" : v \in MapViews }
      \cup (IF mapw.op = "none" THEN {} ELSE {"fatal"})

\* The runtime aborts the process in worker w: nothing runs any more.
Throw(w) ==
    /\ fatal' = TRUE
    /\ Goto(w, "fatal")
    /\ UNCHANGED <<patients, heap, counter, mu, mapw, route, id, p, ptr,
                   update, list, seen, snap, resp, nreq, history>>

\* A map write begins: the runtime aborts when another write is in flight.
MapWriteBegin(w, op, k, next) ==
    IF mapw.op # "none"
    THEN Throw(w)
    ELSE /\ mapw' = [op |-> op, key |-> k]
         /\ Goto(w, next)
         /\ UNCHANGED <<patients, counter, mu, fatal, route, id, update, list,
                        seen, snap, resp, nreq, created, issued, deleted>>

\* Variant: the lock is taken without waiting for its holder.
LockNoWait(w, next) ==
    /\ mu' = w
    /\ Goto(w, next)
    /\ UNCHANGED <<patients, heap, counter, mapw, fatal, route, id, p, ptr,
                   update, list, seen, snap, resp, nreq, history>>

\* mu.Lock()
Lock(w, next) ==
    /\ mu = 0
    /\ mu' = w
    /\ Goto(w, next)
    /\ UNCHANGED <<patients, heap, counter, mapw, fatal, route, id, p, ptr,
                   update, list, seen, snap, resp, nreq, history>>

\* mu.Unlock()
Unlock(w, next) ==
    /\ mu' = 0
    /\ Goto(w, next)
    /\ UNCHANGED <<patients, heap, counter, mapw, fatal, route, id, p, ptr,
                   update, list, seen, snap, resp, nreq, history>>

\* ------------------------------------------------------------- dispatchers

\* Creates that have not yet taken their id from the counter.
PendingCreates ==
    Cardinality({v \in Procs : pc[v] \in {"createPatient", "c_Lock", "c_ID", "c_counter"}})

\* patientsHandler / patientsHandlerDup: a request on a collection route.
\* Both route sets run the same statements from here on.
patientsHandler(w, budget) ==
    /\ pc[w] = "idle" /\ ~fatal
    /\ nreq < budget
    /\ \E rt \in Routes, method \in Methods :
          /\ method = "POST" => counter + PendingCreates < MaxCounter
          /\ req' = [req EXCEPT ![w] = [NoReq EXCEPT !.method = method]]
          /\ CASE method = "GET" ->
                    /\ Goto(w, "getPatients")
                    /\ UNCHANGED <<patients, heap, counter, mu, mapw, fatal, route,
                                   id, p, ptr, update, list, seen, snap, resp>>
               [] method = "POST" ->
                    /\ Goto(w, "createPatient")
                    /\ UNCHANGED <<patients, heap, counter, mu, mapw, fatal, route,
                                   id, p, ptr, update, list, seen, snap, resp>>
               [] OTHER ->
                    /\ WriteHeader(w, Error("", 405, "Method not allowed"))
    /\ nreq' = nreq + 1
    /\ UNCHANGED past

\* The switch of patientHandler falling through to deletePatient.
patientSwitchNoDefault(method) ==
    CASE method = "GET" -> "getPatient"
      [] method = "PUT" -> "updatePatient"
      [] OTHER -> "deletePatient"

\* The switch on r.Method of patientHandler: the handler it calls, "done"
\* for the default case, which answers at once.
patientSwitch(method) ==
    CASE method = "GET" -> "getPatient"
      [] method = "PUT" -> "updatePatient"
      [] method = "DELETE" -> "deletePatient"
      [] OTHER -> "done"

\* patientHandler / patientHandlerDup: a request on an item route.
patientHandler(w, budget) ==
    /\ pc[w] = "idle" /\ ~fatal
    /\ nreq < budget
    /\ \E rt \in Routes, method \in Methods, idStr \in IdStrs :
          /\ req' = [req EXCEPT ![w] = [NoReq EXCEPT !.method = method,
                                                     !.item = TRUE,
                                                     !.atoiErr = AtoiErr(idStr)]]
          /\ IF patientSwitch(method) # "done"
             THEN /\ route' = [route EXCEPT ![w] = rt]
                  /\ id' = [id EXCEPT ![w] = Atoi(idStr)]
                  /\ Goto(w, patientSwitch(method))
                  /\ UNCHANGED <<patients, heap, counter, mu, mapw, fatal, p, ptr,
                                 update, list, seen, snap, resp>>
             ELSE WriteHeader(w, Error("", 405, "Method not allowed"))
    /\ nreq' = nreq + 1
    /\ UNCHANGED past

\* The response has gone out: the worker is free for the next request.
Return(w) ==
    /\ pc[w] = "done" /\ ~fatal
    /\ Goto(w, "idle")
    /\ resp' = [resp EXCEPT ![w] = NoResp]
    /\ id' = [id EXCEPT ![w] = 0]
    /\ update' = [update EXCEPT ![w] = ZeroPatient]
    /\ req' = [req EXCEPT ![w] = NoReq]
    /\ UNCHANGED <<patients, heap, counter, mu, mapw, fatal, route, p, ptr,
                   list, seen, snap, nreq, past>>

\* ----------------------------------------------------------- createPatient

\* Lines 93-105: read and decode the body, check the name, hash the password.
createPatient(w) ==
    /\ pc[w] = "createPatient" /\ ~fatal
    /\ \E body \in Bodies :
          /\ LET d == Unmarshal(body) IN
             IF ~validatePatientName(d.Name)
             THEN Write(w, Error("create", 400, "Invalid patient name"))
             ELSE /\ p' = [p EXCEPT ![w] = [d EXCEPT !.Password = md5hex(d.Password)]]
                  /\ Goto(w, "c_Lock")
                  /\ UNCHANGED <<patients, heap, counter, mu, mapw, fatal, route, id,
                                 ptr, update, list, seen, snap, resp, nreq>>
          /\ req' = [req EXCEPT ![w].jsonErr = ~body.ok]
    /\ UNCHANGED past

createLock(w) ==
    /\ pc[w] = "c_Lock" /\ ~fatal
    /\ Lock(w, "c_ID")

\* p.ID = counter
\* Variant: the id the payload carried is kept.
AssignIDKeepsDraft(rec, c) == rec

\* p.ID = counter
AssignID(rec, c) == [rec EXCEPT !.ID = c]

createAssignID(w) ==
    /\ pc[w] = "c_ID" /\ ~fatal
    /\ p' = [p EXCEPT ![w] = AssignID(p[w], counter)]
    /\ issued' = Append(issued, counter)
    /\ Goto(w, "c_counter")
    /\ UNCHANGED <<patients, heap, counter, mu, mapw, fatal, route, id, ptr,
                   update, list, seen, snap, resp, nreq, created, deleted, fresh,
                   req>>

\* Variant: the counter is not advanced.
NextCounterStuck(c) == c

\* counter++
NextCounter(c) == c + 1

createIncrement(w) ==
    /\ pc[w] = "c_counter" /\ ~fatal
    /\ counter' = NextCounter(counter)
    /\ Goto(w, "c_put")
    /\ UNCHANGED <<patients, heap, mu, mapw, fatal, route, id, p, ptr, update,
                   list, seen, snap, resp, nreq, history>>

\* patients[p.ID] = &p begins: from here the struct is reached through the map.
createMapAssign(w) ==
    /\ pc[w] = "c_put" /\ ~fatal
    /\ MapWriteBegin(w, "insert", p[w].ID, "c_putEnd")
    /\ IF mapw.op # "none"
       THEN TRUE
       ELSE /\ heap' = (p[w].ID :> p[w]) @@ heap
            /\ fresh' = (p[w].ID :> p[w]) @@ fresh
            /\ req' = [req EXCEPT ![w].draft = p[w]]
            /\ ptr' = [ptr EXCEPT ![w] = p[w].ID]
            /\ p' = [p EXCEPT ![w] = ZeroPatient]

\* patients[p.ID] = &p lands.
createMapAssigned(w) ==
    /\ pc[w] = "c_putEnd" /\ ~fatal
    /\ patients' = After
    /\ mapw' = NoWrite
    /\ Goto(w, "c_Unlock")
    /\ UNCHANGED <<heap, counter, mu, fatal, route, id, p, ptr, update, list,
                   seen, snap, resp, nreq, history>>

createUnlock(w) ==
    /\ pc[w] = "c_Unlock" /\ ~fatal
    /\ Unlock(w, "c_Marshal")

\* Lines 113-115: json.Marshal(p) reads the struct the map now shares.
createRespond(w) ==
    /\ pc[w] = "c_Marshal" /\ ~fatal
    /\ Write(w, Body("create", heap[ptr[w]]))
    /\ created' = Append(created, heap[ptr[w]].ID)
    /\ UNCHANGED <<issued, deleted, fresh, req>>

\* ------------------------------------------------------------- getPatients

\* What one step of the unsynchronised `range patients` may do: abort (a
\* write is in flight), produce a key not produced yet, or end.  An entry
\* added after the range began may be produced or skipped.
RangeSteps(w) ==
    { [kind |-> "next", key |-> k] : k \in UNION { v \ seen[w] : v \in MapViews } }
      \cup { [kind |-> "end", key |-> 0] :
               v \in { u \in MapViews : (snap[w] \cap u) \subseteq seen[w] } }
      \cup (IF mapw.op = "none" THEN {} ELSE {[kind |-> "fatal", key |-> 0]})

\* Line 83: the range begins on the map as it is now.
getPatients(w) ==
    /\ pc[w] = "getPatients" /\ ~fatal
    /\ \E v \in MapViews : snap' = [snap EXCEPT ![w] = v]
    /\ Goto(w, "l_next")
    /\ UNCHANGED <<patients, heap, counter, mu, mapw, fatal, route, id, p, ptr,
                   update, list, seen, resp, nreq, history>>

\* Line 83: the range produces the next entry, or ends.
getPatientsNext(w) ==
    /\ pc[w] = "l_next" /\ ~fatal
    /\ \E o \in RangeSteps(w) :
          CASE o.kind = "fatal" -> Throw(w)
            [] o.kind = "next" ->
                 /\ ptr' = [ptr EXCEPT ![w] = o.key]
                 /\ seen' = [seen EXCEPT ![w] = @ \cup {o.key}]
                 /\ Goto(w, "l_copy")
                 /\ UNCHANGED <<patients, heap, counter, mu, mapw, fatal, route,
                                id, p, update, list, snap, resp, nreq, history>>
            [] OTHER ->
                 /\ Goto(w, "l_Marshal")
                 /\ UNCHANGED <<patients, heap, counter, mu, mapw, fatal, route,
                                id, p, ptr, update, list, seen, snap, resp, nreq,
                                history>>

\* Line 84: list = append(list, *p)
getPatientsCopy(w) ==
    /\ pc[w] = "l_copy" /\ ~fatal
    /\ list' = [list EXCEPT ![w] = Append(@, heap[ptr[w]])]
    /\ ptr' = [ptr EXCEPT ![w] = 0]
    /\ heap' = Collect(heap, Reach(patients, mapw, ptr'))
    /\ Goto(w, "l_next")
    /\ UNCHANGED <<patients, counter, mu, mapw, fatal, route, id, p, update,
                   seen, snap, resp, nreq, history>>

\* Lines 86-88
getPatientsRespond(w) ==
    /\ pc[w] = "l_Marshal" /\ ~fatal
    /\ Write(w, [NoResp EXCEPT !.op = "list", !.status = 200, !.list = list[w]])
    /\ UNCHANGED history

\* ------------------------------------------- lookups of the item handlers

\* p, exists := patients[id] without the lock; 404 when the key is absent.
\* getPatient and updatePatient keep the pointer, deletePatient the id.
Lookup(w, op, next, keep) ==
    \E o \in MapRead(id[w]) :
       CASE o = "fatal" -> Throw(w)
         [] o = "hit" ->
              /\ ptr' = [ptr EXCEPT ![w] = IF keep THEN id[w] ELSE 0]
              /\ route' = [route EXCEPT ![w] = "/patients"]
              /\ fresh' = IF op = "get" THEN fresh
                          ELSE [k \in (DOMAIN fresh) \ {id[w]} |-> fresh[k]]
              /\ Goto(w, next)
              /\ UNCHANGED <<patients, heap, counter, mu, mapw, fatal, id, p,
                             update, list, seen, snap, resp, nreq, created,
                             issued, deleted, req>>
         [] OTHER ->
              /\ Write(w, Error(op, 404, NotFoundMsg(w)))
              /\ UNCHANGED history

\* -------------------------------------------------------------- getPatient

\* Lines 120-124
getPatient(w) ==
    /\ pc[w] = "getPatient" /\ ~fatal
    /\ Lookup(w, "get", "g_Marshal", TRUE)

\* Lines 125-127
getPatientRespond(w) ==
    /\ pc[w] = "g_Marshal" /\ ~fatal
    /\ Write(w, Body("get", heap[ptr[w]]))
    /\ UNCHANGED history

\* ----------------------------------------------------------- updatePatient

\* Lines 132-136
updatePatient(w) ==
    /\ pc[w] = "updatePatient" /\ ~fatal
    /\ Lookup(w, "update", "u_Decode", TRUE)

\* Lines 137-139: read and decode the body, errors ignored.
updateDecode(w) ==
    /\ pc[w] = "u_Decode" /\ ~fatal
    /\ \E body \in Bodies :
          /\ update' = [update EXCEPT ![w] = Unmarshal(body)]
          /\ req' = [req EXCEPT ![w].jsonErr = ~body.ok]
    /\ Goto(w, "u_Name")
    /\ UNCHANGED <<patients, heap, counter, mu, mapw, fatal, route, id, p, ptr,
                   list, seen, snap, resp, nreq, past>>

\* Variant: the secret is overwritten whatever the patch carries.
SetPasswordAlways(rec, u) == [rec EXCEPT !.Password = md5hex(u.Password)]

\* The record with the patch's secret: hashed when the patch has one, kept otherwise.
SetPassword(rec, u) ==
    IF u.Password # "" THEN [rec EXCEPT !.Password = md5hex(u.Password)] ELSE rec

\* p.Name = update.Name
updateName(w) ==
    /\ pc[w] = "u_Name" /\ ~fatal
    /\ heap' = [heap EXCEPT ![ptr[w]].Name = update[w].Name]
    /\ Goto(w, "u_Age")
    /\ UNCHANGED <<patients, counter, mu, mapw, fatal, route, id, p, ptr, update,
                   list, seen, snap, resp, nreq, history>>

\* p.Age = update.Age
updateAge(w) ==
    /\ pc[w] = "u_Age" /\ ~fatal
    /\ heap' = [heap EXCEPT ![ptr[w]].Age = update[w].Age]
    /\ Goto(w, "u_Password")
    /\ UNCHANGED <<patients, counter, mu, mapw, fatal, route, id, p, ptr, update,
                   list, seen, snap, resp, nreq, history>>

\* Lines 144-147
updatePassword(w) ==
    /\ pc[w] = "u_Password" /\ ~fatal
    /\ heap' = [heap EXCEPT ![ptr[w]] = SetPassword(@, update[w])]
    /\ Goto(w, "u_Marshal")
    /\ UNCHANGED <<patients, counter, mu, mapw, fatal, route, id, p, ptr, update,
                   list, seen, snap, resp, nreq, history>>

\* Lines 149-151
updateRespond(w) ==
    /\ pc[w] = "u_Marshal" /\ ~fatal
    /\ Write(w, Body("update", heap[ptr[w]]))
    /\ UNCHANGED history

\* ----------------------------------------------------------- deletePatient

\* Lines 156-160: the existence check, made before the lock is taken.
deletePatient(w) ==
    /\ pc[w] = "deletePatient" /\ ~fatal
    /\ Lookup(w, "delete", "d_Lock", FALSE)

deleteLock(w) ==
    /\ pc[w] = "d_Lock" /\ ~fatal
    /\ Lock(w, "d_delete")

\* delete(patients, id) begins.
deleteMapDelete(w) ==
    /\ pc[w] = "d_delete" /\ ~fatal
    /\ MapWriteBegin(w, "delete", id[w], "d_deleteEnd")
    /\ UNCHANGED <<heap, p, ptr, fresh, req>>

\* delete(patients, id) lands.
deleteMapDeleted(w) ==
    /\ pc[w] = "d_deleteEnd" /\ ~fatal
    /\ patients' = After
    /\ deleted' = deleted \cup (patients \ After)
    /\ mapw' = NoWrite
    /\ heap' = Collect(heap, Reach(patients', mapw', ptr))
    /\ Goto(w, "d_Unlock")
    /\ UNCHANGED <<counter, mu, fatal, route, id, p, ptr, update, list, seen,
                   snap, resp, nreq, created, issued, fresh, req>>

deleteUnlock(w) ==
    /\ pc[w] = "d_Unlock" /\ ~fatal
    /\ Unlock(w, "d_WriteHeader")

\* w.WriteHeader(http.StatusNoContent)
deleteRespond(w) ==
    /\ pc[w] = "d_WriteHeader" /\ ~fatal
    /\ Write(w, Error("delete", 204, ""))
    /\ UNCHANGED history

\* ------------------------------------------------------- the specification

Step(w, budget) ==
    \/ patientsHandler(w, budget)
    \/ patientHandler(w, budget)
    \/ Return(w)
    \/ getPatients(w)
    \/ getPatientsNext(w)
    \/ getPatientsCopy(w)
    \/ getPatientsRespond(w)
    \/ createPatient(w)
    \/ createLock(w)
    \/ createAssignID(w)
    \/ createIncrement(w)
    \/ createMapAssign(w)
    \/ createMapAssigned(w)
    \/ createUnlock(w)
    \/ createRespond(w)
    \/ getPatient(w)
    \/ getPatientRespond(w)
    \/ updatePatient(w)
    \/ updateDecode(w)
    \/ updateName(w)
    \/ updateAge(w)
    \/ updatePassword(w)
    \/ updateRespond(w)
    \/ deletePatient(w)
    \/ deleteLock(w)
    \/ deleteMapDelete(w)
    \/ deleteMapDeleted(w)
    \/ deleteUnlock(w)
    \/ deleteRespond(w)

Next == \E w \in Procs : Step(w, MaxRequests)

Spec == Init /\ [][Next]_vars

\* Requests that do not overlap: a worker runs only while every other worker
\* is between requests.
SeqNext ==
    \E w \in Procs :
       /\ \A v \in Procs \ {w} : pc[v] \in {"idle", "done"}
       /\ Step(w, MaxSeqRequests)

SeqSpec == Init /\ [][SeqNext]_vars

\* Every goroutine that can run does run: the Go scheduler leaves no runnable
\* goroutine waiting for ever, and a goroutine blocked in mu.Lock() becomes
\* runnable when the mutex is released.
FairSpec == Spec /\ \A w \in Procs : WF_vars(Step(w, MaxRequests))

\* ------------------------------------------------------------ properties

Range(s) == {s[i] : i \in DOMAIN s}

\* The name and the age of the record come from one payload.
Coherent(rec) ==
    \E b \in Bodies : rec.Name = Unmarshal(b).Name /\ rec.Age = Unmarshal(b).Age

\* Worker w takes a step.
Moves(w) == pc'[w] # pc[w]

UpdateWrites == {"u_Name", "u_Age", "u_Password"}

\* C1: the ids that concurrent createPatient calls assign, and the ids their
\* responses carry, are pairwise distinct and each is at least 1, the
\* counter's seed.
C1_UniqueIds ==
    /\ \A i, j \in DOMAIN issued : i # j => issued[i] # issued[j]
    /\ \A i \in DOMAIN issued : issued[i] >= 1
    /\ \A i, j \in DOMAIN created : i # j => created[i] # created[j]
    /\ \A i \in DOMAIN created : created[i] >= 1

\* Two creates are in flight together, each with its id assigned and its
\* record in the map.
C1_Witness ==
    \E v, w \in Procs :
       v # w /\ pc[v] = "c_Marshal" /\ pc[w] = "c_Marshal" /\ ptr[v] # ptr[w]

\* The positions whose statement reads or writes the map or one of its records.
AccessPcs ==
    {"getPatients", "l_next", "l_copy", "getPatient", "g_Marshal", "updatePatient",
     "u_Name", "u_Age", "u_Password", "u_Marshal", "deletePatient", "c_put",
     "c_putEnd", "c_Marshal", "d_delete", "d_deleteEnd"}

\* C2: every operation reads or writes the collection only while it holds
\* the lock (so that none reads or writes it while another one's write is
\* in flight).
C2_AllUnderLock ==
    \A w \in Procs : pc[w] \in AccessPcs => mu = w

\* C3: once no update is between its writes of the name and of the age, the
\* stored name and age of every record come from one payload; and the record
\* an update returns carries the name and the age of its own patch.
C3_UpdateAtomic ==
    /\ \A k \in patients :
          (\A w \in Procs : ~(pc[w] = "u_Age" /\ ptr[w] = k)) => Coherent(heap[k])
    /\ \A w \in Procs :
          (pc[w] = "done" /\ resp[w].op = "update" /\ resp[w].status = 200)
             => /\ resp[w].rec.Name = update[w].Name
                /\ resp[w].rec.Age = update[w].Age

\* C4: an update never writes to a record that a delete has already removed:
\* whenever it applies a part of its patch, no delete has taken the record
\* out of the collection.
C4_UpdateNotAfterDelete ==
    [][\A w \in Procs :
          (pc[w] \in UpdateWrites /\ Moves(w)) => ptr[w] \notin deleted]_vars

\* C5: a record returned by getPatient or contained in the result of
\* getPatients is never half-written: it never pairs the name of one payload
\* with the age of another.
C5_ConsistentReads ==
    /\ \A w \in Procs :
          (pc[w] = "done" /\ resp[w].op = "get" /\ resp[w].status = 200)
             => Coherent(resp[w].rec)
    /\ \A w \in Procs :
          (pc[w] = "done" /\ resp[w].op = "list")
             => \A i \in DOMAIN resp[w].list : Coherent(resp[w].list[i])

\* C6 as stated: the ids are strictly increasing in the order in which the
\* creates respond.
C6_CompletionOrder ==
    \A i, j \in DOMAIN created : i < j => created[i] < created[j]

\* C6, amended: the id a create takes under the lock is larger than every id
\* taken before it and than the id of every create that has responded, and
\* it is the id of no deleted record.
C6_AssignOrder ==
    [][\A w \in Procs :
          (pc[w] = "c_ID" /\ Moves(w))
             => /\ \A j \in DOMAIN issued : issued[j] < p'[w].ID
                /\ \A i \in DOMAIN created : created[i] < p'[w].ID
                /\ p'[w].ID \notin deleted
                /\ counter' >= counter]_vars

\* A record was deleted and two creates have responded with increasing ids.
C6_Witness ==
    /\ Len(created) = 2 /\ created[1] < created[2]
    /\ deleted # {}

\* C7: the lookup of getPatient, updatePatient and deletePatient for an id
\* the counter never issued ends in the 404 answer and leaves the collection
\* and the counter as they were.
C7_NeverIssuedNotFound ==
    [][\A w \in Procs :
          (/\ pc[w] \in {"getPatient", "updatePatient", "deletePatient"}
           /\ id[w] \notin Range(issued)
           /\ Moves(w))
             => /\ pc'[w] = "done"
                /\ resp'[w].status = 404
                /\ patients' = patients
                /\ heap' = heap
                /\ counter' = counter]_vars

\* C8: when requests do not overlap, the delete of a present id goes through,
\* removes exactly that record (the map holds one key less, every other
\* record and the counter are as before) and answers 204; a delete or a get
\* of a deleted id answers 404 and changes nothing; and getPatients returns
\* exactly the records of the map.
C8_DeleteTwice ==
    [][\A w \in Procs :
          /\ (pc[w] = "deletePatient" /\ id[w] \in patients /\ Moves(w))
                => pc'[w] = "d_Lock"
          /\ (pc[w] = "d_deleteEnd" /\ Moves(w))
                => /\ id[w] \in patients
                   /\ patients' = patients \ {id[w]}
                   /\ Cardinality(patients') = Cardinality(patients) - 1
                   /\ \A k \in patients' : heap'[k] = heap[k]
                   /\ counter' = counter
          /\ (pc[w] = "d_WriteHeader" /\ Moves(w))
                => /\ resp'[w].status = 204
                   /\ id[w] \in deleted /\ id[w] \notin patients
          /\ (pc[w] \in {"deletePatient", "getPatient"} /\ id[w] \in deleted /\ Moves(w))
                => /\ pc'[w] = "done"
                   /\ resp'[w].status = 404
                   /\ patients' = patients /\ heap' = heap /\ counter' = counter
          /\ (pc[w] = "l_Marshal" /\ Moves(w))
                => /\ Len(resp'[w].list) = Cardinality(patients)
                   /\ {resp'[w].list[i].ID : i \in DOMAIN resp'[w].list} = patients
                   /\ \A i \in DOMAIN resp'[w].list :
                         resp'[w].list[i] = heap[resp'[w].list[i].ID]]_vars

\* The second delete of an id has answered 404, and another record remains.
C8_Witness ==
    \E w \in Procs :
       /\ pc[w] = "done" /\ resp[w].op = "delete" /\ resp[w].status = 404
       /\ id[w] \in deleted
       /\ patients # {}

\* C9: once a create has responded with id k, and as long as no update or
\* delete has found k, the lookup of a getPatient for k finds the record and
\* the response carries id k with the name and the age of the draft.
C9_ReadAfterWrite ==
    [][\A w \in Procs :
          /\ (/\ pc[w] = "getPatient"
              /\ id[w] \in Range(created) /\ id[w] \in DOMAIN fresh
              /\ Moves(w))
                => pc'[w] = "g_Marshal"
          /\ (/\ pc[w] = "g_Marshal"
              /\ ptr[w] \in Range(created) /\ ptr[w] \in DOMAIN fresh
              /\ Moves(w))
                => /\ resp'[w].status = 200
                   /\ resp'[w].rec.ID = ptr[w]
                   /\ resp'[w].rec.Name = fresh[ptr[w]].Name
                   /\ resp'[w].rec.Age = fresh[ptr[w]].Age]_vars

\* C10: of the record it found, an update's three writes set the name to the
\* patch's name, the age to the patch's age, and the secret to the hash of
\* the patch's secret when that is not empty; an empty secret leaves the
\* stored one; the id, every other record, the map and the counter stay.
C10_UpdateFields ==
    [][\A w \in Procs :
          (pc[w] \in UpdateWrites /\ Moves(w))
             => LET k == ptr[w]
                    old == heap[k]
                    new == heap'[k]
                    u == update[w]
                IN  /\ patients' = patients /\ counter' = counter
                    /\ DOMAIN heap' = DOMAIN heap
                    /\ \A j \in (DOMAIN heap) \ {k} : heap'[j] = heap[j]
                    /\ new.ID = old.ID
                    /\ new.Name = (IF pc[w] = "u_Name" THEN u.Name ELSE old.Name)
                    /\ new.Age = (IF pc[w] = "u_Age" THEN u.Age ELSE old.Age)
                    /\ new.Password =
                         (IF pc[w] = "u_Password" /\ u.Password # ""
                          THEN md5hex(u.Password) ELSE old.Password)]_vars

\* An update with a secret has made its three writes to one of two records,
\* and the stored secret is the hash of the patch's.
C10_Witness ==
    \E w \in Procs :
       /\ pc[w] = "u_Marshal" /\ ptr[w] \in patients
       /\ update[w].Password # ""
       /\ heap[ptr[w]].Password = md5hex(update[w].Password)
       /\ heap[ptr[w]].Name = update[w].Name
       /\ Cardinality(patients) = 2

\* The map, the counter and every record that stays allocated are as before.
StoreUnchanged ==
    /\ patients' = patients
    /\ counter' = counter
    /\ \A k \in (DOMAIN heap) \cap (DOMAIN heap') : heap'[k] = heap[k]
    /\ (DOMAIN heap') \subseteq (DOMAIN heap)

\* C11: a create or update whose payload failed to decode changes neither
\* the map, nor the counter, nor any record, and the answer it writes is
\* 400 Bad Request.
C11_MalformedRejected ==
    [][\A w \in Procs :
          (req[w].jsonErr /\ Moves(w) /\ pc[w] # "done")
             => /\ StoreUnchanged
                /\ pc'[w] = "done" => resp'[w].status = 400]_vars

LookupPcs == {"getPatient", "updatePatient", "deletePatient"}

\* C12: a GET, PUT or DELETE of an item whose id segment is no number (or
\* is empty) is answered by its first step with 404 (or 400), and that step
\* changes neither the map, nor the counter, nor any record.
C12_BadIdNotFound ==
    [][\A w \in Procs :
          (req[w].atoiErr /\ pc[w] \in LookupPcs /\ Moves(w))
             => /\ pc'[w] = "done"
                /\ resp'[w].status \in {400, 404}
                /\ StoreUnchanged]_vars

\* C13: every record in the map has a name that passes validatePatientName.
C13_StoredNamesValid ==
    \A k \in patients : validatePatientName(heap[k].Name)

\* C14: a request whose method its route does not recognise (other than GET
\* and POST on the collection, GET, PUT and DELETE on an item) is answered
\* 405 by the dispatcher, and the map, every record and the counter are as
\* before.
C14_MethodNotAllowed ==
    [][\A w \in Procs :
          (/\ pc[w] = "idle" /\ Moves(w)
           /\ req'[w].method \notin (IF req'[w].item THEN {"GET", "PUT", "DELETE"}
                                                     ELSE {"GET", "POST"}))
             => /\ pc'[w] = "done"
                /\ resp'[w].status = 405
                /\ patients' = patients /\ heap' = heap /\ counter' = counter]_vars

\* A PATCH of an item and a DELETE of the collection have both been answered
\* 405 while the map holds a record.
C14_Witness ==
    \E v, w \in Procs :
       /\ pc[v] = "done" /\ req[v].item /\ req[v].method = "PATCH"
       /\ resp[v].status = 405
       /\ pc[w] = "done" /\ ~req[w].item /\ req[w].method = "DELETE"
       /\ resp[w].status = 405
       /\ patients # {}

\* The positions between mu.Lock() and mu.Unlock().
LockedPcs == {"c_ID", "c_counter", "c_put", "c_putEnd", "c_Unlock",
              "d_delete", "d_deleteEnd", "d_Unlock"}

\* C15: the lock is held only by a handler between its mu.Lock() and its
\* mu.Unlock(), and under fair scheduling every request a handler has
\* started on is eventually answered.
C15_EveryRequestAnswered ==
    /\ [](\A w \in Procs : mu = w <=> pc[w] \in LockedPcs)
    /\ \A w \in Procs : (pc[w] \notin {"idle", "done"}) ~> (pc[w] = "done")

\* C16: every record the map or a handler still points to carries as its id
\* the key it was stored under, and that key is a value createPatient took
\* from the counter: neither the id of a create's payload nor the id of an
\* update's payload gets into a record.
C16_IdIsKey ==
    \A k \in DOMAIN heap : heap[k].ID = k /\ k \in Range(issued)

\* Of two stored records, one is as created from the payload that carried
\* id 7, the other has taken the name and age of an update whose payload
\* carried id 7; both have their keys as ids.
C16_Witness ==
    \E w \in Procs, k \in patients :
       /\ pc[w] = "u_Marshal" /\ update[w].ID = 7
       /\ ptr[w] \in patients /\ ptr[w] # k
       /\ heap[ptr[w]].Name = update[w].Name /\ heap[ptr[w]].Age = update[w].Age
       /\ heap[ptr[w]].ID = ptr[w]
       /\ k \in DOMAIN fresh /\ fresh[k].Name = <<"B", "o">>
       /\ heap[k].ID = k /\ k # 7

\* C17: the counter is at least 1 and no step lowers it, and every key of the
\* map, and every record a handler can still reach, has an id from 1 up to
\* the counter less one.
C17_CounterBounds ==
    [][/\ counter >= 1
       /\ counter' >= counter
       /\ \A k \in patients' \cup DOMAIN heap' : 1 <= k /\ k < counter']_vars

\* Two ids were assigned and one of the two records was deleted: the counter
\* stands above both.
C17_Witness ==
    /\ counter > 2
    /\ patients # {}
    /\ deleted # {}
    /\ \A k \in patients \cup deleted : k < counter

\* The worker's request was a delete that answered 204.
Deleted204(w) ==
    pc[w] = "done" /\ resp[w].op = "delete" /\ resp[w].status = 204

\* C18: of the deletes of one id, at most one answers 204, the one that
\* removed the record.
C18_OneDeleteSucceeds ==
    \A v, w \in Procs :
       (v # w /\ Deleted204(v) /\ Deleted204(w)) => id[v] # id[w]

\* C19: the record in the 200 answer of a create is the record it put into
\* the map: the assigned id with the payload's name and age.
C19_CreateReturnsInserted ==
    \A w \in Procs :
       (pc[w] = "done" /\ resp[w].op = "create" /\ resp[w].status = 200)
          => /\ resp[w].rec.ID = req[w].draft.ID
             /\ resp[w].rec.Name = req[w].draft.Name
             /\ resp[w].rec.Age = req[w].draft.Age

====
